---------------------------- MODULE Spec2Model ----------------------------
(***************************************************************************)
(* A model of event-digest (src/event-digest/main.go): the digest-and-cache *)
(* pipeline over hourly event archives.                                    *)
(*                                                                         *)
(* Text is modelled as sequences of one-character strings, so that         *)
(* splitting, lower-casing, pattern matching and number parsing are        *)
(* computed as the code computes them.                                     *)
(*                                                                         *)
(* The environment may fail the program where the code handles a failure   *)
(* of its own making: creating an artifact (for a reason other than its    *)
(* existence), opening the input file, writing the artifact, and each step *)
(* of makeSummary.  Reading back an artifact that exists and reading       *)
(* users.txt fail only by what the files hold.  A write that fails leaves  *)
(* nothing of what it was to write: to a JSON decoder a cut-off value is   *)
(* an error just as an empty file is.                                      *)
(*                                                                         *)
(* The order in which the glob lists the event files is left open: main    *)
(* takes the files it has not reached yet in any order.                    *)
(*                                                                         *)
(* Spec is one process at a time, run after run, with new archives         *)
(* arriving in between; SpecStale lets archives change after they were     *)
(* digested; SpecTwo runs two processes at once; SpecLC and SpecDigest are  *)
(* lineCounter and doDigestFile on their own, over any input.              *)
(***************************************************************************)
EXTENDS Integers, Sequences, FiniteSets, TLC

(***************************************************************************)
(* Bounds of the model.                                                    *)
(***************************************************************************)
\* Input files that may exist in the events directory at once.
MaxFiles == 2
\* Runs of the program (process invocations) in one behaviour.
MaxRuns == 3
\* Read calls lineCounter makes on one stream, and bytes one call returns,
\* in the specification of lineCounter alone.
MaxReads == 3
MaxChunk == 2

(***************************************************************************)
(* Text helpers.                                                           *)
(***************************************************************************)
NL == "\n"

Digits == {"0", "1", "2", "3", "4", "5", "6", "7", "8", "9"}

DigitVal(c) ==
    CASE c = "0" -> 0 [] c = "1" -> 1 [] c = "2" -> 2 [] c = "3" -> 3
      [] c = "4" -> 4 [] c = "5" -> 5 [] c = "6" -> 6 [] c = "7" -> 7
      [] c = "8" -> 8 [] c = "9" -> 9

\* strconv.Atoi on a string of decimal digits (the only strings the pattern
\* hands to it); the error result is discarded by the caller.
RECURSIVE Atoi(_)
Atoi(s) ==
    IF s = <<>> THEN 0
    ELSE 10 * Atoi(SubSeq(s, 1, Len(s) - 1)) + DigitVal(s[Len(s)])

LowerChar(c) ==
    CASE c = "A" -> "a" [] c = "B" -> "b" [] c = "C" -> "c" [] OTHER -> c

\* strings.ToLower
ToLower(s) == [i \in 1..Len(s) |-> LowerChar(s[i])]

\* strings.Split(s, "\n"): the segments between newlines; a string with k
\* newlines yields k+1 segments, the last one empty when s ends in a newline
\* (or is empty).
RECURSIVE SplitFrom(_, _, _)
SplitFrom(s, i, cur) ==
    IF i > Len(s) THEN <<cur>>
    ELSE IF s[i] = NL THEN <<cur>> \o SplitFrom(s, i + 1, <<>>)
    ELSE SplitFrom(s, i + 1, Append(cur, s[i]))

Split(s) == SplitFrom(s, 1, <<>>)

\* fmt.Fprintln(w, u): the operand followed by a newline.
Fprintln(u) == u \o <<NL>>

Range(s) == {s[i] : i \in 1..Len(s)}

IsPrefix(s, t) == Len(s) <= Len(t) /\ SubSeq(t, 1, Len(s)) = s

(***************************************************************************)
(* eventFilenameRE and the date of a file.                                 *)
(***************************************************************************)
AllDigits(s, from, to) == \A k \in from..to : s[k] \in Digits

\* Whether (\d{4})-(\d{2})-(\d{2})-(\d{1,2}) matches s starting at position i.
MatchAt(s, i) ==
    /\ i + 11 <= Len(s)
    /\ AllDigits(s, i, i + 3)
    /\ s[i + 4] = "-"
    /\ AllDigits(s, i + 5, i + 6)
    /\ s[i + 7] = "-"
    /\ AllDigits(s, i + 8, i + 9)
    /\ s[i + 10] = "-"
    /\ s[i + 11] \in Digits

\* The last group taking one digit only.
HourEndOneDigit(s, i) == i + 11

\* The last group is greedy: two digits when a second digit follows.
HourEnd(s, i) ==
    IF i + 12 <= Len(s) /\ s[i + 12] \in Digits THEN i + 12 ELSE i + 11

\* eventFilenameRE.FindStringSubmatch(s): nil (the empty sequence) when the
\* pattern matches nowhere, else the leftmost match and its four groups.
\* Go's dateParts[k] is element k+1 here.
FindStringSubmatch(s) ==
    LET starts == {i \in 1..Len(s) : MatchAt(s, i)}
    IN  IF starts = {} THEN <<>>
        ELSE LET i == CHOOSE j \in starts : \A k \in starts : j <= k
                 e == HourEnd(s, i)
             IN  << SubSeq(s, i, e),
                    SubSeq(s, i, i + 3),
                    SubSeq(s, i + 5, i + 6),
                    SubSeq(s, i + 8, i + 9),
                    SubSeq(s, i + 11, e) >>

(***************************************************************************)
(* time.Date and the JSON form of a time.                                  *)
(*                                                                         *)
(* A time.Time at hour resolution in UTC is modelled by its absolute hour  *)
(* count (hours since 0000-01-01T00:00Z, proleptic Gregorian), which is    *)
(* what Unix() orders by; its JSON form (RFC 3339) is the record of its    *)
(* civil fields.                                                           *)
(***************************************************************************)
IsLeap(y) == (y % 4 = 0 /\ y % 100 # 0) \/ y % 400 = 0

DaysIn(y, m) ==
    IF m = 2 THEN (IF IsLeap(y) THEN 29 ELSE 28)
    ELSE IF m \in {4, 6, 9, 11} THEN 30 ELSE 31

\* Days from 0000-01-01 to the first day of year y (y >= -400).
DaysBeforeYear(y) ==
    LET z == y + 400
    IN  365 * z + ((z + 3) \div 4) - ((z + 99) \div 100) + ((z + 399) \div 400)
        - 146097

RECURSIVE DaysBeforeMonth(_, _)
DaysBeforeMonth(y, m) ==
    IF m <= 1 THEN 0 ELSE DaysBeforeMonth(y, m - 1) + DaysIn(y, m - 1)

\* time.Date(year, month, day, hour, 0, 0, 0, time.UTC): values outside their
\* usual ranges are normalised, the month into the year first, then days and
\* hours by plain addition.
TimeDate(year, month, day, hour) ==
    LET m0 == month - 1
        y  == year + (m0 \div 12)
        m  == (m0 % 12) + 1
    IN  (DaysBeforeYear(y) + DaysBeforeMonth(y, m) + (day - 1)) * 24 + hour

\* The civil fields of a time: what Time.MarshalJSON prints.
Civil(t) ==
    LET days == t \div 24
        y == CHOOSE yy \in ((days \div 366) - 1)..((days \div 365) + 1) :
                 DaysBeforeYear(yy) <= days /\ days < DaysBeforeYear(yy + 1)
        rem == days - DaysBeforeYear(y)
        m == CHOOSE mm \in 1..12 :
                 DaysBeforeMonth(y, mm) <= rem
                 /\ rem < DaysBeforeMonth(y, mm) + DaysIn(y, mm)
    IN  [year |-> y, month |-> m, day |-> rem - DaysBeforeMonth(y, m) + 1,
         hour |-> t % 24]

\* Time.MarshalJSON fails for a year outside [0, 9999].
MarshalTimeOk(t) == Civil(t).year \in 0..9999

\* json encoding of a Digest: {"count": c, "date": RFC 3339 text}.
EncodeDigest(d) == [count |-> d.Count, date |-> Civil(d.Date)]

\* json decoding of a stored Digest.
DecodeDigest(j) ==
    [Count |-> j.count,
     Date |-> TimeDate(j.date.year, j.date.month, j.date.day, j.date.hour)]

(***************************************************************************)
(* The Stream Digester.                                                    *)
(*                                                                         *)
(* A decompressed stream is a sequence of tokens, each a record with its   *)
(* kind t: the newline byte, a JSON element that decodes into an           *)
(* EventRecord whose Actor.Username is login, bytes that are no JSON       *)
(* element, or some other byte.  Only the newline token holds a newline.   *)
(***************************************************************************)
NLTok == [t |-> "nl"]

BadTok == [t |-> "bad"]

XTok == [t |-> "x"]

Rec(l) == [t |-> "rec", login |-> l]

\* bytes.Count(buf[:c], lineSep)
RECURSIVE BytesCount(_)
BytesCount(b) ==
    IF b = <<>> THEN 0
    ELSE (IF Head(b).t = "nl" THEN 1 ELSE 0) + BytesCount(Tail(b))

\* The loop of lineCounter leaving at end-of-stream before it counts what
\* came with it.
RECURSIVE LineCounterEofFirst(_, _, _)
LineCounterEofFirst(reads, i, count) ==
    IF reads[i].err \notin {"nil", "EOF"}
    THEN [count |-> count, err |-> reads[i].err]
    ELSE IF reads[i].err = "EOF" THEN [count |-> count, err |-> "nil"]
    ELSE LineCounterEofFirst(reads, i + 1, count + BytesCount(reads[i].data))

\* The loop of lineCounter over the results of successive r.Read(buf) calls,
\* each [data |-> the bytes read, err |-> "nil" | "EOF" | "ERR"].
RECURSIVE LineCounterFrom(_, _, _)
LineCounterFrom(reads, i, count) ==
    IF reads[i].err \notin {"nil", "EOF"}
    THEN [count |-> count, err |-> reads[i].err]
    ELSE LET c == count + BytesCount(reads[i].data)
         IN  IF reads[i].err = "EOF" THEN [count |-> c, err |-> "nil"]
             ELSE LineCounterFrom(reads, i + 1, c)

lineCounter(reads) == LineCounterFrom(reads, 1, 0)

\* usernameExtractor without the strings.ToLower of line 156.
RECURSIVE usernameExtractorAsIs(_, _)
usernameExtractorAsIs(r, users) ==
    IF r = <<>> THEN [err |-> "nil", users |-> users]
    ELSE IF Head(r).t = "nl" THEN usernameExtractorAsIs(Tail(r), users)
    ELSE IF Head(r).t # "rec" THEN [err |-> "ERR", users |-> users]
    ELSE usernameExtractorAsIs(Tail(r), users \cup {Head(r).login})

\* The loop of usernameExtractor: the decoder skips white space (NL), decodes
\* one element at a time, and stops at the first element it cannot decode.
RECURSIVE usernameExtractor(_, _)
usernameExtractor(r, users) ==
    IF r = <<>> THEN [err |-> "nil", users |-> users]
    ELSE IF Head(r).t = "nl" THEN usernameExtractor(Tail(r), users)
    ELSE IF Head(r).t # "rec" THEN [err |-> "ERR", users |-> users]
    ELSE usernameExtractor(Tail(r), users \cup {ToLower(Head(r).login)})

\* What the gzip reader hands out for a file [gzip, stream]: the decompressed
\* bytes and then end-of-stream, or an error when the archive is cut short.
GzipReads(file) ==
    IF file.gzip = "truncated"
    THEN << [data |-> file.stream, err |-> "ERR"] >>
    ELSE << [data |-> file.stream, err |-> "nil"], [data |-> <<>>, err |-> "EOF"] >>

\* Lines 90-98 of doDigestFile: the date of a file from its base name (the
\* directory is cut off by filepath.Base before the pattern sees it); it
\* panics when the pattern does not match (dateParts is nil and dateParts[1]
\* is out of range).
FileDate(name) ==
    LET dateParts == FindStringSubmatch(name)
    IN  IF dateParts = <<>> THEN [panic |-> TRUE, date |-> 0]
        ELSE [panic |-> FALSE,
              date |-> TimeDate(Atoi(dateParts[2]), Atoi(dateParts[3]),
                                Atoi(dateParts[4]), Atoi(dateParts[5]))]

\* Stands for a Digest that is not there (a nil *Digest, or the zero Digest
\* that comes with an error).
NilDigest == [Count |-> 0 - 1, Date |-> 0 - 1]

\* doDigestFile(eventFilePath, digestFile, users), as a function of the file's
\* base name and content, the live set, and whether the environment lets the
\* input file be opened and the artifact be written.  The result: how it
\* ended ("ok", "err": an error returned, "panic"), the Digest returned (or
\* NilDigest), the live set as it leaves it, and what it wrote into the artifact.
doDigestFile(name, file, users, openOk, writeOk) ==
    LET failed(kind, u) ==
            [kind |-> kind, digest |-> NilDigest, users |-> u, written |-> <<>>]
        lc == lineCounter(GzipReads(file))
        ex == usernameExtractor(file.stream, users)
        fileDate == FileDate(name)
        digest == [Count |-> lc.count, Date |-> fileDate.date]
    IN  IF ~openOk THEN failed("err", users)
        ELSE IF file.gzip = "badheader" THEN failed("panic", users)
        ELSE IF lc.err # "nil" THEN failed("panic", users)
        ELSE IF ex.err # "nil" THEN failed("panic", ex.users)
        ELSE IF fileDate.panic THEN failed("panic", ex.users)
        ELSE IF ~MarshalTimeOk(fileDate.date) \/ ~writeOk
        THEN [kind |-> "err", digest |-> digest, users |-> ex.users,
              written |-> <<>>]
        ELSE [kind |-> "ok", digest |-> digest, users |-> ex.users,
              written |-> <<EncodeDigest(digest)>>]

\* readDigest that hands back its fresh &Digest{} without decoding into it.
readDigestUndecoded(content) ==
    IF content = <<>> THEN [kind |-> "err", digest |-> NilDigest]
    ELSE [kind |-> "ok", digest |-> [Count |-> 0, Date |-> 0]]

\* readDigest taking an artifact it cannot decode for a stored zero Digest.
readDigestIgnoringError(content) ==
    IF content = <<>> THEN [kind |-> "ok", digest |-> [Count |-> 0, Date |-> 0]]
    ELSE [kind |-> "ok", digest |-> DecodeDigest(content[1])]

\* readDigest(digestFilePath), as a function of the artifact's content (the
\* sequence of JSON values in it): decoding an empty artifact fails with EOF.
readDigest(content) ==
    IF content = <<>> THEN [kind |-> "err", digest |-> NilDigest]
    ELSE [kind |-> "ok", digest |-> DecodeDigest(content[1])]

(***************************************************************************)
(* Username sets and digest slices (the generated set and slice types).    *)
(***************************************************************************)
\* UsernameSet.Clone: a new set with the same members.
Clone(set) == set

\* UsernameSet.Difference: the members of the receiver absent from other.
Difference(set, other) == set \ other

\* The comparison turned round.
DateGreater(x, y) == x.Date > y.Date

\* The comparison main's makeSummary sorts by (lines 169-171).
DateLess(x, y) == x.Date < y.Date

Perms(n) == {p \in [1..n -> 1..n] : \A i, j \in 1..n : i # j => p[i] # p[j]}

\* DigestSlice.SortBy(less) with main's comparison: the orders a comparison
\* sort may leave the slice in; elements that compare equal may end in any
\* order.
SortBy(slice) ==
    LET n == Len(slice)
    IN  {[i \in 1..n |-> slice[p[i]]] : p \in
            {q \in Perms(n) : \A i, j \in 1..n :
                i < j => ~DateLess(slice[q[j]], slice[q[i]])}}

\* The orders in which ranging over a set (a Go map) may visit its members.
Orders(set) ==
    LET n == Cardinality(set)
    IN  {o \in [1..n -> set] : \A i, j \in 1..n : i # j => o[i] # o[j]}

(***************************************************************************)
(* The input files of the model.                                           *)
(***************************************************************************)
JsonGz == <<".", "j", "s", "o", "n", ".", "g", "z">>

Day5 == <<"2", "0", "2", "4", "-", "0", "1", "-", "0", "5">>

\* The base name of each input file the events directory may hold: hour 9,
\* hour 10 (before hour 9 in name order), hour 09 (the same hour as 9), hour
\* 11 and a name without the hour.
BaseName(f) ==
    CASE f = "h9" -> Day5 \o <<"-", "9">> \o JsonGz
      [] f = "h10" -> Day5 \o <<"-", "1", "0">> \o JsonGz
      [] f = "h09" -> Day5 \o <<"-", "0", "9">> \o JsonGz
      [] f = "h11" -> Day5 \o <<"-", "1", "1">> \o JsonGz
      [] f = "nohour" -> Day5 \o JsonGz

FileIds == {"h9", "h10", "h09", "h11", "nohour"}

Alice == <<"A", "l", "i", "c", "e">>
alice == <<"a", "l", "i", "c", "e">>
bob == <<"b", "o", "b">>
Carol == <<"C", "a", "r", "o", "l">>
carol == <<"c", "a", "r", "o", "l">>

\* The content of each input file: two well-formed archives (the second
\* without a final newline, sharing a login with the first up to letter
\* case), an archive with a record whose login is empty and a blank line, an
\* archive whose second element is no JSON, and one more well-formed archive.
ContentOf(f) ==
    CASE f = "h9" ->
           [gzip |-> "ok", stream |-> <<Rec(Alice), NLTok, Rec(bob), NLTok>>]
      [] f = "h10" ->
           [gzip |-> "ok", stream |-> <<Rec(alice), NLTok, Rec(Carol)>>]
      [] f = "h09" ->
           [gzip |-> "ok",
            stream |-> <<Rec(<<>>), NLTok, NLTok, Rec(bob), NLTok>>]
      [] f = "h11" ->
           [gzip |-> "ok", stream |-> <<Rec(bob), NLTok, BadTok, NLTok>>]
      [] f = "nohour" ->
           [gzip |-> "ok", stream |-> <<Rec(Carol), NLTok>>]

Contents == {ContentOf(f) : f \in FileIds}

\* The events directory with any set of at most MaxFiles of these files.
InputSets ==
    {[f \in D |-> ContentOf(f)] :
        D \in {E \in SUBSET FileIds : Cardinality(E) <= MaxFiles}}

(***************************************************************************)
(* State.                                                                  *)
(***************************************************************************)
VARIABLES
    inputs,         \* the *.json.gz files of the events directory: id -> content
    artifacts,      \* the <path>.digest.json files: id -> the JSON values in it
    summary,        \* summary.json: [exists, data: the JSON values in it]
    usersTxt,       \* users.txt: [exists, data: its characters]
    pc,             \* "idle": no process; "loop": main is in its loop over files
    heap,           \* the UsernameSet objects of the running process
    users,          \* main's users: a reference into heap
    existingUsers,  \* main's existingUsers: a reference into heap
    todo,           \* the event files main has not reached yet
    digests,        \* main's digests slice
    runs,           \* processes started so far
    outcome,        \* how the last process ended: "none", "ok", "fatal"
    ret,            \* what the last DigestFile call returned, and by which path
    first,          \* id -> the Digest DigestFile first returned on the miss path
    got,            \* id -> the Digest DigestFile returned in this run
    snapshot,       \* the members existingUsers had when it was cloned
    before,         \* summary.json and users.txt when this run started
    lastGood,       \* summary.json and users.txt after the last successful run
    fresh,          \* this run started with no artifacts and no known users
    eventFiles,     \* main's eventFiles: the files the glob listed
    good,           \* the last successful run: its input files and live set
    origin,         \* users.txt as it was before the first run
    opened,         \* the input files this run has opened (line 64)
    inst,           \* two instances at once: each one's place in its loop
    created,        \* two instances at once: id -> who created the artifact
    lcReads,        \* lineCounter alone: what the reader's Read calls return
    lcResult,       \* lineCounter alone: [done, count, err]
    dgParts,        \* doDigestFile alone: the parts of the file's base name
    dgResult        \* doDigestFile alone: [done] and what it returned

vars == <<inputs, artifacts, summary, usersTxt, pc, heap, users, existingUsers,
          todo, digests, runs, outcome, ret, first, got, snapshot, before,
          lastGood, fresh, eventFiles, good, origin, opened, inst, created,
          lcReads, lcResult, dgParts, dgResult>>

\* The state of the specifications of single functions.
pure == <<lcReads, lcResult, dgParts, dgResult>>

\* The state of the pipeline.
pipe == <<inputs, artifacts, summary, usersTxt, pc, heap, users, existingUsers,
          todo, digests, runs, outcome, ret, first, got, snapshot, before,
          lastGood, fresh, eventFiles, good, origin, opened>>

\* The state of the specification of two instances.
two == <<inst, created>>

disk == <<inputs, artifacts, summary, usersTxt>>

Absent == [exists |-> FALSE, data |-> <<>>]

Empty == [exists |-> TRUE, data |-> <<>>]

NoFunction == [x \in {} |-> x]

NoRet == [file |-> "", path |-> "none", kind |-> "none", digest |-> NilDigest]

NoReads == <<>>

NoResult == [done |-> FALSE]

NoParts == [done |-> FALSE]

NoGood == [ok |-> FALSE, inputs |-> NoFunction, users |-> {}]

NoInst == <<>>

TwoIdle ==
    /\ inst = NoInst
    /\ created = NoFunction

PureIdle ==
    /\ lcReads = NoReads
    /\ lcResult = NoResult
    /\ dgParts = NoParts
    /\ dgResult = NoResult

PipeInit(in, known) ==
    /\ inputs = in
    /\ artifacts = NoFunction
    /\ summary = Absent
    /\ usersTxt = known
    /\ pc = "idle"
    /\ heap = <<>>
    /\ users = 0
    /\ existingUsers = 0
    /\ todo = {}
    /\ digests = <<>>
    /\ runs = 0
    /\ outcome = "none"
    /\ ret = NoRet
    /\ first = NoFunction
    /\ got = NoFunction
    /\ snapshot = {}
    /\ before = [summary |-> summary, usersTxt |-> usersTxt]
    /\ lastGood = [summary |-> summary, usersTxt |-> usersTxt]
    /\ fresh = FALSE
    /\ eventFiles = {}
    /\ good = NoGood
    /\ origin = known
    /\ opened = {}

Init ==
    /\ \E in \in InputSets, known \in {Absent, Empty} : PipeInit(in, known)
    /\ PureIdle
    /\ TwoIdle

(***************************************************************************)
(* main, step by step.  A process is born by StartRun, calls DigestFile    *)
(* once per event file, and ends in Summarize or by a panic on the way.    *)
(***************************************************************************)
\* readKnownUsers that loads nothing.
readKnownUsersForgetting(file) == {}

\* readKnownUsers taking a users.txt it cannot read for an empty text.
readKnownUsersMissingAsEmpty(file) == Range(Split(file.data))

\* readKnownUsers(): every segment of users.txt split at newlines; the empty
\* set when the file cannot be read.
readKnownUsers(file) ==
    IF file.exists THEN Range(Split(file.data)) ELSE {}

\* existingUsers := users, without the Clone: both name one set object.
TakeSnapshotAliased(h, u) == [heap |-> h, ref |-> u]

\* Line 219, existingUsers := users.Clone(): a new set object on the heap.
TakeSnapshot(h, u) == [heap |-> Append(h, Clone(h[u])), ref |-> Len(h) + 1]

\* Lines 217-227: load the known users, snapshot them, list the event files.
StartRun ==
    /\ pc = "idle"
    /\ runs < MaxRuns
    /\ LET loaded == <<readKnownUsers(usersTxt)>>
           snap == TakeSnapshot(loaded, 1)
       IN  /\ heap' = snap.heap
           /\ users' = 1
           /\ existingUsers' = snap.ref
           /\ snapshot' = snap.heap[snap.ref]
    /\ eventFiles' = DOMAIN inputs
    /\ todo' = DOMAIN inputs
    /\ digests' = <<>>
    /\ got' = NoFunction
    /\ pc' = "loop"
    /\ runs' = runs + 1
    /\ outcome' = "none"
    /\ ret' = NoRet
    /\ before' = [summary |-> summary, usersTxt |-> usersTxt]
    /\ fresh' = (DOMAIN artifacts = {} /\ usersTxt.data = <<>>)
    /\ opened' = {}
    /\ UNCHANGED <<disk, first, lastGood, good, origin, pure, two>>

\* main going on to the next file whatever DigestFile returned.
AfterDigestFileUnchecked(f, path, r) ==
    /\ ret' = [file |-> f, path |-> path, kind |-> r.kind, digest |-> r.digest]
    /\ digests' = Append(digests, r.digest)
    /\ got' = (f :> r.digest) @@ got
    /\ todo' = todo \ {f}
    /\ UNCHANGED <<pc, outcome>>

\* main collecting the Digests of the files it digested itself only.
AfterDigestFileFreshOnly(f, path, r) ==
    /\ ret' = [file |-> f, path |-> path, kind |-> r.kind, digest |-> r.digest]
    /\ IF r.kind = "ok"
       THEN /\ digests' = IF path = "miss" THEN Append(digests, r.digest)
                          ELSE digests
            /\ got' = (f :> r.digest) @@ got
            /\ todo' = todo \ {f}
            /\ UNCHANGED <<pc, outcome>>
       ELSE /\ pc' = "idle"
            /\ outcome' = "fatal"
            /\ UNCHANGED <<digests, got, todo>>

\* Lines 229-234 of main after DigestFile(f, users) returned r by way of path:
\* a panic on an error, else the Digest is collected.
AfterDigestFile(f, path, r) ==
    /\ ret' = [file |-> f, path |-> path, kind |-> r.kind, digest |-> r.digest]
    /\ IF r.kind = "ok"
       THEN /\ digests' = Append(digests, r.digest)
            /\ got' = (f :> r.digest) @@ got
            /\ todo' = todo \ {f}
            /\ UNCHANGED <<pc, outcome>>
       ELSE /\ pc' = "idle"
            /\ outcome' = "fatal"
            /\ UNCHANGED <<digests, got, todo>>

\* The cache hit looking into the input file all the same.
DigestFileHitReopening(f) ==
    /\ pc = "loop"
    /\ f \in todo
    /\ f \in DOMAIN artifacts
    /\ opened' = opened \cup {f}
    /\ AfterDigestFile(f, "hit",
                       IF readDigest(artifacts[f]).kind = "ok"
                          /\ readDigest(artifacts[f]).digest.Count
                                # BytesCount(inputs[f].stream)
                       THEN [kind |-> "ok",
                             digest |-> [Count |-> BytesCount(inputs[f].stream),
                                         Date |-> FileDate(BaseName(f)).date]]
                       ELSE readDigest(artifacts[f]))
    /\ UNCHANGED <<disk, heap, users, existingUsers, runs, first, snapshot,
                   before, lastGood, fresh, eventFiles, good, origin, pure, two>>

\* DigestFile when creating the artifact fails because it exists (lines
\* 51-54): the stored Digest is read back.
DigestFileHit(f) ==
    /\ pc = "loop"
    /\ f \in todo
    /\ f \in DOMAIN artifacts
    /\ AfterDigestFile(f, "hit", readDigest(artifacts[f]))
    /\ UNCHANGED <<disk, heap, users, existingUsers, runs, first, snapshot,
                   before, lastGood, fresh, eventFiles, good, origin, opened,
                   pure, two>>

\* DigestFile when creating the artifact fails for another reason (line 55).
DigestFileError(f) ==
    /\ pc = "loop"
    /\ f \in todo
    /\ f \notin DOMAIN artifacts
    /\ AfterDigestFile(f, "gate",
                       [kind |-> "err", digest |-> NilDigest])
    /\ UNCHANGED <<disk, heap, users, existingUsers, runs, first, snapshot,
                   before, lastGood, fresh, eventFiles, good, origin, opened,
                   pure, two>>

\* DigestFile when it creates the artifact (lines 57-59): the file is
\* digested into it.
DigestFileMiss(f) ==
    /\ pc = "loop"
    /\ f \in todo
    /\ f \notin DOMAIN artifacts
    /\ \E openOk, writeOk \in BOOLEAN :
          LET r == doDigestFile(BaseName(f), inputs[f], heap[users],
                                openOk, writeOk)
          IN  /\ artifacts' = (f :> r.written) @@ artifacts
              /\ heap' = [heap EXCEPT ![users] = r.users]
              /\ first' = IF r.kind = "ok" /\ f \notin DOMAIN first
                          THEN (f :> r.digest) @@ first ELSE first
              /\ opened' = IF openOk THEN opened \cup {f} ELSE opened
              /\ AfterDigestFile(f, "miss", r)
    /\ UNCHANGED <<inputs, summary, usersTxt, users, existingUsers, runs,
                   snapshot, before, lastGood, fresh, eventFiles, good, origin,
                   pure, two>>

\* json encoding of the sorted slice: one JSON array.
EncodeSlice(slice) == [i \in 1..Len(slice) |-> EncodeDigest(slice[i])]

\* summary.json opened for appending instead of created anew.
WriteSummaryAppending(old, slice) ==
    [exists |-> TRUE, data |-> Append(old.data, EncodeSlice(slice))]

\* Lines 173-182 of makeSummary: os.Create truncates summary.json and the
\* encoder writes the array into it.
WriteSummary(old, slice) == [exists |-> TRUE, data |-> <<EncodeSlice(slice)>>]

\* What the first k rounds of the loop at lines 194-199 write.
RECURSIVE PrintedLines(_, _)
PrintedLines(order, k) ==
    IF k = 0 THEN <<>> ELSE PrintedLines(order, k - 1) \o Fprintln(order[k])

\* users.txt created anew (truncated) instead of opened for appending.
AppendUsersTruncating(old, order, k) ==
    [exists |-> TRUE, data |-> PrintedLines(order, k)]

\* Lines 184-199 of makeSummary: users.txt is opened for appending (created
\* when absent) and the first k users of the range are printed to it.
AppendUsers(old, order, k) ==
    [exists |-> TRUE, data |-> old.data \o PrintedLines(order, k)]

\* The difference taken the wrong way round.
NewUsersSwapped == Difference(heap[existingUsers], heap[users])

\* Line 238: the users this run discovered.
NewUsers == Difference(heap[users], heap[existingUsers])

\* Lines 237-240 and makeSummary, when nothing fails.
Summarize ==
    /\ pc = "loop"
    /\ todo = {}
    /\ \E slice \in SortBy(digests), order \in Orders(NewUsers) :
          /\ summary' = WriteSummary(summary, slice)
          /\ usersTxt' = AppendUsers(usersTxt, order, Len(order))
    /\ lastGood' = [summary |-> summary', usersTxt |-> usersTxt']
    /\ good' = [ok |-> TRUE, inputs |-> inputs, users |-> heap[users]]
    /\ pc' = "idle"
    /\ outcome' = "ok"
    /\ UNCHANGED <<inputs, artifacts, heap, users, existingUsers, todo, digests,
                   runs, ret, first, got, snapshot, before, fresh, eventFiles,
                   origin, opened, pure, two>>

\* Lines 237-240 and makeSummary, when a step of makeSummary panics: creating
\* summary.json (line 175), encoding into it (line 181), opening users.txt
\* (line 189), or printing the user after the first k (line 197).
SummarizeFatal ==
    /\ pc = "loop"
    /\ todo = {}
    /\ \E stage \in {"create", "encode", "open", "append"} :
       \E slice \in SortBy(digests), order \in Orders(NewUsers) :
       \E k \in 0..(Len(order) - 1) :
          /\ summary' = CASE stage = "create" -> summary
                          [] stage = "encode" -> Empty
                          [] OTHER -> WriteSummary(summary, slice)
          /\ usersTxt' = IF stage = "append"
                         THEN AppendUsers(usersTxt, order, k)
                         ELSE usersTxt
    /\ pc' = "idle"
    /\ outcome' = "fatal"
    /\ UNCHANGED <<inputs, artifacts, heap, users, existingUsers, todo, digests,
                   runs, ret, first, got, snapshot, before, lastGood, fresh,
                   eventFiles, good, origin, opened, pure, two>>

\* The environment: between two runs a new archive arrives in the events
\* directory.
AddFile(f) ==
    /\ pc = "idle"
    /\ outcome # "none"
    /\ f \notin DOMAIN inputs
    /\ Cardinality(DOMAIN inputs) < MaxFiles
    /\ inputs' = (f :> ContentOf(f)) @@ inputs
    /\ UNCHANGED <<artifacts, summary, usersTxt, pc, heap, users, existingUsers,
                   todo, digests, runs, outcome, ret, first, got, snapshot,
                   before, lastGood, fresh, eventFiles, good, origin, opened,
                   pure, two>>

Next ==
    \/ StartRun
    \/ \E f \in FileIds : DigestFileHit(f)
    \/ \E f \in FileIds : DigestFileError(f)
    \/ \E f \in FileIds : DigestFileMiss(f)
    \/ Summarize
    \/ SummarizeFatal
    \/ \E f \in FileIds : AddFile(f)

Spec == Init /\ [][Next]_vars

(***************************************************************************)
(* The pipeline when input files change after they were written: between   *)
(* two runs a file of the events directory gets more records.              *)
(***************************************************************************)
dave == <<"d", "a", "v", "e">>

\* The content of an input file after it changed: one more line, one more
\* actor.
ChangedContentOf(f) ==
    [gzip |-> "ok", stream |-> ContentOf(f).stream \o <<NLTok, Rec(dave), NLTok>>]

\* The environment: between two runs an archive that has its artifact is
\* written anew.
RewriteFile(f) ==
    /\ pc = "idle"
    /\ f \in DOMAIN inputs
    /\ f \in DOMAIN artifacts
    /\ inputs[f] = ContentOf(f)
    /\ inputs' = [inputs EXCEPT ![f] = ChangedContentOf(f)]
    /\ UNCHANGED <<artifacts, summary, usersTxt, pc, heap, users, existingUsers,
                   todo, digests, runs, outcome, ret, first, got, snapshot,
                   before, lastGood, fresh, eventFiles, good, origin, opened,
                   pure, two>>

\* The files of the events directory here: the two well-formed archives.
StaleIds == {"h9", "h10"}

InitStale ==
    /\ \E in \in {i \in InputSets : DOMAIN i # {} /\ DOMAIN i \subseteq StaleIds} :
          PipeInit(in, Absent)
    /\ PureIdle
    /\ TwoIdle

NextStale ==
    \/ StartRun
    \/ \E f \in FileIds : DigestFileHit(f)
    \/ \E f \in FileIds : DigestFileError(f)
    \/ \E f \in FileIds : DigestFileMiss(f)
    \/ Summarize
    \/ SummarizeFatal
    \/ \E f \in FileIds : RewriteFile(f)

SpecStale == InitStale /\ [][NextStale]_vars

(***************************************************************************)
(* Two instances of the program at once over one events directory, each in *)
(* its loop over the files (lines 218-235 of main).  A DigestFile call is   *)
(* taken apart at its system calls: the exclusive create of line 48, and    *)
(* then either doDigestFile, which reads the input and writes the artifact  *)
(* it holds open, or readDigest, which opens the artifact and decodes it.   *)
(* Steps of the two instances interleave in any order.                      *)
(***************************************************************************)
Instances == {1, 2}

\* An instance that has not started.
Off == [pc |-> "off", todo |-> {}, users |-> {}, file |-> "", digests |-> <<>>]

InitTwo ==
    /\ \E in \in InputSets : PipeInit(in, Absent)
    /\ PureIdle
    /\ inst = [p \in Instances |-> Off]
    /\ created = [f \in FileIds |-> [by |-> {}, computed |-> {}]]

\* Lines 217-227 of main in instance p.
TwoStart(p) ==
    /\ inst[p].pc = "off"
    /\ inst' = [inst EXCEPT ![p] = [pc |-> "main", todo |-> DOMAIN inputs,
                                    users |-> readKnownUsers(usersTxt),
                                    file |-> "", digests |-> <<>>]]
    /\ UNCHANGED <<pipe, pure, created>>

\* The create of line 48 without O_EXCL: an artifact that exists is opened
\* as it is.
TwoCreateNoExcl(p, f) ==
    /\ inst[p].pc = "main"
    /\ f \in inst[p].todo
    /\ artifacts' = IF f \in DOMAIN artifacts THEN artifacts
                    ELSE (f :> <<>>) @@ artifacts
    /\ inst' = [inst EXCEPT ![p].pc = "doDigestFile", ![p].file = f]
    /\ created' = [created EXCEPT ![f].by = @ \cup {p}]
    /\ UNCHANGED <<inputs, summary, usersTxt, pc, heap, users, existingUsers,
                   todo, digests, runs, outcome, ret, first, got, snapshot,
                   before, lastGood, fresh, eventFiles, good, origin, opened,
                   pure>>

\* Lines 48-50 in instance p when the artifact of f is not there: the file
\* system creates it, empty, and no one else can create it any more.
TwoCreate(p, f) ==
    /\ inst[p].pc = "main"
    /\ f \in inst[p].todo
    /\ f \notin DOMAIN artifacts
    /\ artifacts' = (f :> <<>>) @@ artifacts
    /\ inst' = [inst EXCEPT ![p].pc = "doDigestFile", ![p].file = f]
    /\ created' = [created EXCEPT ![f].by = @ \cup {p}]
    /\ UNCHANGED <<inputs, summary, usersTxt, pc, heap, users, existingUsers,
                   todo, digests, runs, outcome, ret, first, got, snapshot,
                   before, lastGood, fresh, eventFiles, good, origin, opened,
                   pure>>

\* Lines 48-53 in instance p when the artifact of f is there: the create
\* fails with "exists" and DigestFile turns to readDigest.
TwoExists(p, f) ==
    /\ inst[p].pc = "main"
    /\ f \in inst[p].todo
    /\ f \in DOMAIN artifacts
    /\ inst' = [inst EXCEPT ![p].pc = "readDigest", ![p].file = f]
    /\ UNCHANGED <<pipe, pure, created>>

\* Lines 48-55 in instance p when the create fails for another reason: the
\* error goes back to main, which panics.
TwoGateError(p, f) ==
    /\ inst[p].pc = "main"
    /\ f \in inst[p].todo
    /\ f \notin DOMAIN artifacts
    /\ inst' = [inst EXCEPT ![p].pc = "fatal", ![p].file = f]
    /\ UNCHANGED <<pipe, pure, created>>

\* Lines 59 and 230-234 in instance p: doDigestFile on the file whose
\* artifact p holds open, and main's handling of what it returns.
TwoDoDigestFile(p) ==
    /\ inst[p].pc = "doDigestFile"
    /\ \E openOk, writeOk \in BOOLEAN :
          LET f == inst[p].file
              r == doDigestFile(BaseName(f), inputs[f], inst[p].users,
                                openOk, writeOk)
          IN  /\ artifacts' = IF r.written = <<>> THEN artifacts
                              ELSE [artifacts EXCEPT ![f] = r.written]
              /\ created' = [created EXCEPT ![f].computed = @ \cup {p}]
              /\ inst' = [inst EXCEPT
                    ![p].users = r.users,
                    ![p].pc = IF r.kind = "ok" THEN "main" ELSE "fatal",
                    ![p].todo = IF r.kind = "ok" THEN @ \ {f} ELSE @,
                    ![p].digests = IF r.kind = "ok" THEN Append(@, r.digest)
                                   ELSE @]
    /\ UNCHANGED <<inputs, summary, usersTxt, pc, heap, users, existingUsers,
                   todo, digests, runs, outcome, ret, first, got, snapshot,
                   before, lastGood, fresh, eventFiles, good, origin, opened,
                   pure>>

\* Lines 53 and 230-234 in instance p: readDigest on the artifact as it is
\* by now, and main's handling of what it returns.
TwoReadDigest(p) ==
    /\ inst[p].pc = "readDigest"
    /\ LET f == inst[p].file
           r == readDigest(artifacts[f])
       IN  inst' = [inst EXCEPT
                 ![p].pc = IF r.kind = "ok" THEN "main" ELSE "fatal",
                 ![p].todo = IF r.kind = "ok" THEN @ \ {f} ELSE @,
                 ![p].digests = IF r.kind = "ok" THEN Append(@, r.digest)
                                ELSE @]
    /\ UNCHANGED <<pipe, pure, created>>

\* Instance p leaves its loop (line 235) for the summary.
TwoLoopEnd(p) ==
    /\ inst[p].pc = "main"
    /\ inst[p].todo = {}
    /\ inst' = [inst EXCEPT ![p].pc = "done"]
    /\ UNCHANGED <<pipe, pure, created>>

NextTwo ==
    \/ \E p \in Instances : TwoStart(p)
    \/ \E p \in Instances, f \in FileIds : TwoCreate(p, f)
    \/ \E p \in Instances, f \in FileIds : TwoExists(p, f)
    \/ \E p \in Instances, f \in FileIds : TwoGateError(p, f)
    \/ \E p \in Instances : TwoDoDigestFile(p)
    \/ \E p \in Instances : TwoReadDigest(p)
    \/ \E p \in Instances : TwoLoopEnd(p)

SpecTwo == InitTwo /\ [][NextTwo]_vars

(***************************************************************************)
(* lineCounter alone: any reader, asked up to MaxReads times.              *)
(***************************************************************************)
Bytes == {NLTok, XTok}

Chunks == UNION {[1..n -> Bytes] : n \in 0..MaxChunk}

\* What a reader returns to n successive Read calls: data (possibly none)
\* with a nil error, and last data (possibly none) with io.EOF or another
\* error e.
ReadSeq(n, d, e) ==
    [i \in 1..n |-> [data |-> d[i], err |-> IF i < n THEN "nil" ELSE e]]

InitLC ==
    /\ PipeInit(NoFunction, Absent)
    /\ \E n \in 1..MaxReads :
          \E d \in [1..n -> Chunks], e \in {"EOF", "ERR"} :
             lcReads = ReadSeq(n, d, e)
    /\ lcResult = NoResult
    /\ dgParts = NoParts
    /\ dgResult = NoResult
    /\ TwoIdle

CallLineCounter ==
    /\ lcReads # NoReads
    /\ ~lcResult.done
    /\ LET r == lineCounter(lcReads)
       IN  lcResult' = [done |-> TRUE, count |-> r.count, err |-> r.err]
    /\ UNCHANGED <<pipe, two, lcReads, dgParts, dgResult>>

NextLC == CallLineCounter

SpecLC == InitLC /\ [][NextLC]_vars

(***************************************************************************)
(* doDigestFile alone: any base name put together from a prefix, a year, a *)
(* month, a day and (or not) an hour, and any content.                     *)
(***************************************************************************)
NameParts ==
    [prefix : {<<>>, <<"x">>, <<"1">>},
     year   : {<<"2", "0", "2", "4">>, <<"2", "0", "2", "3">>,
               <<"9", "9", "9", "9">>},
     sep    : {"-", "_"},
     month  : {<<"0", "1">>, <<"0", "2">>, <<"1", "2">>, <<"1", "3">>,
               <<"0", "0">>},
     day    : {<<"0", "1">>, <<"2", "9">>, <<"3", "1">>, <<"0", "0">>},
     hour   : {<<>>, <<"9">>, <<"0", "9">>, <<"0">>, <<"2", "3">>,
               <<"2", "4">>, <<"9", "9">>}]

\* The base name the parts spell; without an hour there is no fourth group.
NameOfParts(p) ==
    p.prefix \o p.year \o <<p.sep>> \o p.month \o <<p.sep>> \o p.day
        \o (IF p.hour = <<>> THEN <<>> ELSE <<p.sep>> \o p.hour) \o JsonGz

\* Contents, and archives gzip cannot read: a bad header, a cut-off stream.
AnyContents ==
    Contents \cup
    { [gzip |-> "badheader", stream |-> <<>>],
      [gzip |-> "truncated", stream |-> <<Rec(alice), NLTok>>] }

InitDigest ==
    /\ PipeInit(NoFunction, Absent)
    /\ lcReads = NoReads
    /\ lcResult = NoResult
    /\ \E p \in NameParts, c \in AnyContents : dgParts = [name |-> p, file |-> c]
    /\ dgResult = NoResult
    /\ TwoIdle

CallDoDigestFile ==
    /\ dgParts # NoParts
    /\ ~dgResult.done
    /\ \E openOk, writeOk \in BOOLEAN :
          dgResult' = [done |-> TRUE, openOk |-> openOk, writeOk |-> writeOk,
                       r |-> doDigestFile(NameOfParts(dgParts.name),
                                          dgParts.file, {}, openOk, writeOk)]
    /\ UNCHANGED <<pipe, two, lcReads, lcResult, dgParts>>

NextDigest == CallDoDigestFile

SpecDigest == InitDigest /\ [][NextDigest]_vars

(***************************************************************************)
(* Properties.                                                             *)
(***************************************************************************)
\* A step in which main called DigestFile on f and got its result.
DigestFileCalled(f) == ret'.file = f /\ ret' # ret

\* C1 (idempotent cache hit): once DigestFile has returned a Digest for a
\* file on the miss path, every later call on the same path returns, without
\* error, a Digest with that count and that date, and leaves the live
\* username set (and every other set of the process) as it was.
C1_IdempotentCacheHit ==
    [][\A f \in FileIds :
          (f \in DOMAIN first /\ DigestFileCalled(f)) =>
              /\ ret'.path = "hit"
              /\ ret'.kind = "ok"
              /\ ret'.digest.Count = first[f].Count
              /\ ret'.digest.Date = first[f].Date
              /\ heap' = heap]_vars

\* A second run has called DigestFile on a file digested by the first, whose
\* live set already holds users found in this run.
C1_Witness ==
    /\ ret.path = "hit"
    /\ ret.file \in DOMAIN first
    /\ ret.digest = first[ret.file]
    /\ ret.digest.Count > 0
    /\ heap[users] # heap[existingUsers]

\* The newline-terminated lines of a text.
LinesOf(data) == LET segs == Split(data) IN SubSeq(segs, 1, Len(segs) - 1)

\* The actor logins of the records of a stream.
Logins(stream) ==
    {stream[i].login : i \in {j \in 1..Len(stream) : stream[j].t = "rec"}}

LowerLogins(F) == UNION {{ToLower(l) : l \in Logins(inputs[f].stream)} : f \in F}

\* A well-formed input file: a readable archive of JSON records, each with a
\* login that names an actor (a non-empty string).
WellFormed(file) ==
    /\ file.gzip = "ok"
    /\ \A i \in 1..Len(file.stream) :
          /\ file.stream[i].t \in {"rec", "nl"}
          /\ file.stream[i].t = "rec" => file.stream[i].login # <<>>

\* The Digests summary.json holds, decoded.
SummaryDigests ==
    IF summary.exists /\ Len(summary.data) = 1
    THEN [i \in 1..Len(summary.data[1]) |-> DecodeDigest(summary.data[1][i])]
    ELSE <<>>

Ascending(slice) ==
    \A i \in 1..(Len(slice) - 1) : slice[i].Date <= slice[i + 1].Date

Occurrences(slice, d) == Cardinality({i \in 1..Len(slice) : slice[i] = d})

\* C2 (end to end): a run that starts with no cache artifact and an empty or
\* absent users.txt, over well-formed input files, and completes, leaves one
\* populated cache artifact per input file and no other, a summary with one
\* entry per input file (the file's newline count and the hour of its name)
\* in ascending date order, and a users.txt whose lines are exactly the
\* lower-cased logins of all the input files.
C2_EndToEnd ==
    (outcome = "ok" /\ fresh /\ \A f \in eventFiles : WellFormed(inputs[f])) =>
        /\ DOMAIN artifacts = eventFiles
        /\ \A f \in eventFiles : Len(artifacts[f]) = 1
        /\ summary.exists
        /\ Len(summary.data) = 1
        /\ Len(SummaryDigests) = Cardinality(eventFiles)
        /\ \A f \in eventFiles :
              /\ got[f].Count = BytesCount(inputs[f].stream)
              /\ got[f].Date = FileDate(BaseName(f)).date
              /\ Occurrences(SummaryDigests, got[f])
                    = Cardinality({g \in eventFiles : got[g] = got[f]})
        /\ Ascending(SummaryDigests)
        /\ usersTxt.exists
        /\ Range(LinesOf(usersTxt.data)) = LowerLogins(eventFiles)

\* A first run over two files that share a login up to letter case has
\* completed, the later hour digested first.
C2_Witness ==
    /\ outcome = "ok"
    /\ fresh
    /\ eventFiles = {"h9", "h10"}
    /\ \A f \in eventFiles : WellFormed(inputs[f])
    /\ digests[1].Date > digests[2].Date
    /\ Cardinality(Range(LinesOf(usersTxt.data))) = 3

\* What this run has appended to users.txt, line by line.
AppendedLines ==
    LinesOf(SubSeq(usersTxt.data, Len(before.usersTxt.data) + 1,
                   Len(usersTxt.data)))

NoRepeats(seq) == \A i, j \in 1..Len(seq) : i # j => seq[i] # seq[j]

\* C3 (diff correctness): from the moment it is cloned, the snapshot holds
\* the users read from users.txt at the start of the run, whatever extraction
\* adds to the live set; and what a completed run has appended to users.txt
\* is, each once, exactly the members of the live set that are not in the
\* snapshot.
C3_DiffCorrectness ==
    /\ (pc = "loop" \/ outcome # "none") =>
          /\ heap[existingUsers] = snapshot
          /\ snapshot = readKnownUsers(before.usersTxt)
    /\ outcome = "ok" =>
          /\ NoRepeats(AppendedLines)
          /\ Range(AppendedLines) = heap[users] \ snapshot

\* A completed run that knew alice from an earlier run, met her again and
\* appended users it found in more than one file.
C3_Witness ==
    /\ outcome = "ok"
    /\ alice \in snapshot
    /\ Cardinality(DOMAIN got) = 2
    /\ \E f \in DOMAIN got : alice \in LowerLogins({f})
    /\ Len(AppendedLines) >= 1
    /\ heap[users] \ snapshot # {}

\* The bytes of the stream behind a sequence of Read results.
RECURSIVE StreamOf(_)
StreamOf(reads) ==
    IF reads = <<>> THEN <<>> ELSE Head(reads).data \o StreamOf(Tail(reads))

\* The lines of a stream: those a newline ends, and a last one without.
LinesIn(stream) ==
    BytesCount(stream)
        + (IF stream # <<>> /\ stream[Len(stream)].t # "nl" THEN 1 ELSE 0)

\* C4 (line counting edge case), as claimed: for a stream of N >= 1 lines
\* read to its end, lineCounter reports N, whether or not the last line ends
\* with a newline.
C4_CountsLinesBothEndings ==
    (lcResult.done /\ lcReads[Len(lcReads)].err = "EOF"
        /\ LinesIn(StreamOf(lcReads)) >= 1) =>
        /\ lcResult.err = "nil"
        /\ lcResult.count = LinesIn(StreamOf(lcReads))

\* summary.json and users.txt.
Outputs == [summary |-> summary, usersTxt |-> usersTxt]

\* C5, as claimed: whenever a run has aborted with a fatal error after some
\* run succeeded, summary.json and users.txt hold what they held after the
\* last successful run.
C5_AbortLeavesLastGood ==
    (outcome = "fatal" /\ lastGood.summary.exists) => Outputs = lastGood

\* C5, amended: a DigestFile call that fails (in the cache gate or while
\* digesting) aborts the run, and as long as a run has not reached
\* makeSummary, and after it aborted before reaching it, summary.json and
\* users.txt hold what they held when the run started.
C5_AbortBeforeSummary ==
    /\ ret.kind \in {"err", "panic"} =>
          pc = "idle" /\ outcome = "fatal" /\ Outputs = before
    /\ pc = "loop" => Outputs = before
    /\ (outcome = "fatal" /\ todo # {}) => Outputs = before

\* A second run has aborted while digesting a newly arrived file, after a
\* first run wrote both outputs.
C5_Witness ==
    /\ outcome = "fatal"
    /\ ret.path = "miss"
    /\ ret.kind = "panic"
    /\ todo # {}
    /\ summary.exists
    /\ usersTxt.data # <<>>
    /\ Outputs = lastGood

\* C6 (append-only): no step removes users.txt or changes what it held; a
\* step only adds text at its end.
C6_AppendOnly ==
    [][/\ usersTxt.exists => usersTxt'.exists
       /\ IsPrefix(usersTxt.data, usersTxt'.data)]_vars

\* Two runs have each appended to users.txt, the second after an abort
\* half-way through its appending.
C6_Witness ==
    /\ runs = 2
    /\ outcome = "fatal"
    /\ todo = {}
    /\ before.usersTxt.data # <<>>
    /\ Len(AppendedLines) = 1
    /\ Cardinality(NewUsers) >= 2

\* C7: after a run that completed, summary.json holds one JSON array with
\* exactly one Digest for each file the run enumerated, the one DigestFile
\* returned for it (fresh or cached), and nothing else.
C7_OneDigestPerFile ==
    outcome = "ok" =>
        /\ DOMAIN got = eventFiles
        /\ summary.exists
        /\ Len(summary.data) = 1
        /\ Len(SummaryDigests) = Cardinality(eventFiles)
        /\ \A f \in eventFiles :
              Occurrences(SummaryDigests, got[f])
                  = Cardinality({g \in eventFiles : got[g] = got[f]})

\* A second completed run replaced a summary of one entry by one of two, one
\* Digest cached and one fresh.
C7_Witness ==
    /\ outcome = "ok"
    /\ runs = 2
    /\ before.summary.exists
    /\ Len(before.summary.data) = 1
    /\ Len(before.summary.data[1]) = 1
    /\ Len(SummaryDigests) = 2
    /\ \E f \in eventFiles : f \in DOMAIN first /\ ret.file # f /\ ret.path = "miss"

\* C8 (summary ordering): the sequence a completed run wrote to summary.json
\* is a permutation of the Digests main collected, and no entry's date is
\* later than the next entry's.
C8_SummaryOrdering ==
    outcome = "ok" =>
        /\ Len(SummaryDigests) = Len(digests)
        /\ \A i \in 1..Len(digests) :
              Occurrences(SummaryDigests, digests[i])
                  = Occurrences(digests, digests[i])
        /\ Ascending(SummaryDigests)

\* Main collected the Digest of hour 10 before that of hour 9 and the
\* summary holds them the other way round.
C8_Witness ==
    /\ outcome = "ok"
    /\ Len(digests) = 2
    /\ digests[1].Date > digests[2].Date
    /\ SummaryDigests = <<digests[2], digests[1]>>

\* The name handed to doDigestFile holds the four groups year-month-day-hour.
HasGroups(p) == p.sep = "-" /\ p.hour # <<>>

\* The numbers the four groups spell.
Fields(p) ==
    [year |-> Atoi(p.year), month |-> Atoi(p.month), day |-> Atoi(p.day),
     hour |-> Atoi(p.hour)]

\* The groups name a day of the calendar and an hour of the day.
InCalendar(p) ==
    /\ Atoi(p.month) \in 1..12
    /\ Atoi(p.day) \in 1..DaysIn(Atoi(p.year), Atoi(p.month))
    /\ Atoi(p.hour) \in 0..23

\* doDigestFile got as far as the file name: the file opened, gzip read it,
\* every element decoded.
ReachedName ==
    /\ dgResult.openOk
    /\ dgParts.file.gzip = "ok"
    /\ \A i \in 1..Len(dgParts.file.stream) : dgParts.file.stream[i].t # "bad"

\* A base name without the four groups makes doDigestFile fail (a panic,
\* unless something failed before) and return no Digest.
NoMatchAborts ==
    (dgResult.done /\ ~HasGroups(dgParts.name)) =>
        /\ dgResult.r.kind \in {"panic", "err"}
        /\ ReachedName => dgResult.r.kind = "panic"
        /\ dgResult.r.digest = NilDigest

\* C9 (filename parsing), as claimed: whenever the base name holds the four
\* groups, the fresh Digest's date is that year, month, day and hour; a name
\* without them aborts and yields no Digest.
C9_DateIsTheGroups ==
    /\ (dgResult.done /\ HasGroups(dgParts.name) /\ ReachedName) =>
          Civil(dgResult.r.digest.Date) = Fields(dgParts.name)
    /\ NoMatchAborts

\* C9, amended: the fresh Digest's date is the year, month, day and hour of
\* the groups when these name a day of the calendar and an hour from 0 to 23;
\* a name without the four groups aborts and yields no Digest.
C9_DateIsTheGroupsInCalendar ==
    /\ (dgResult.done /\ HasGroups(dgParts.name) /\ InCalendar(dgParts.name)
           /\ ReachedName) =>
          /\ Civil(dgResult.r.digest.Date) = Fields(dgParts.name)
          /\ dgResult.writeOk => dgResult.r.kind = "ok"
    /\ NoMatchAborts

\* doDigestFile has digested a file named after 23 h on a leap day, the
\* groups behind another digit.
C9_Witness ==
    /\ dgResult.done
    /\ dgResult.r.kind = "ok"
    /\ dgParts.name.prefix = <<"1">>
    /\ Fields(dgParts.name) = [year |-> 2024, month |-> 2, day |-> 29, hour |-> 23]
    /\ Civil(dgResult.r.digest.Date) = Fields(dgParts.name)

IsLower(u) == ToLower(u) = u

\* C10 (case normalization): a DigestFile call that digests a file adds to
\* the live set exactly the lower-case forms of the file's logins, so no two
\* members of the live set differ in letter case only, and every line of
\* users.txt is lower-case.
C10_CaseNormalization ==
    /\ [](\A u \in Range(LinesOf(usersTxt.data)) : IsLower(u))
    /\ [](pc = "loop" =>
            \A u, v \in heap[users] : ToLower(u) = ToLower(v) => u = v)
    /\ [][\A f \in FileIds :
            (DigestFileCalled(f) /\ ret'.path = "miss" /\ ret'.kind = "ok") =>
                heap'[users] = heap[users] \cup LowerLogins({f})]_vars

\* A completed run digested a file with the login Alice and one with alice
\* and wrote alice once.
C10_Witness ==
    /\ outcome = "ok"
    /\ Cardinality(eventFiles) = 2
    /\ \E f, g \in eventFiles :
          Alice \in Logins(inputs[f].stream) /\ alice \in Logins(inputs[g].stream)
    /\ NoRepeats(LinesOf(usersTxt.data))
    /\ Range(LinesOf(usersTxt.data)) = {alice, bob, carol}

\* A step in which a process starts: main up to its loop over the files.
Started == pc = "idle" /\ pc' = "loop"

\* C11 (missing known-users artifact): a run that finds no users.txt starts
\* all the same, with an empty live set and an empty snapshot and every
\* listed file ahead of it; the absence makes no step of it fatal; and when
\* it completes, users.txt exists and its lines are exactly the users the run
\* discovered (its live set).
C11_MissingUsersNotFatal ==
    /\ [][(Started /\ ~usersTxt.exists) =>
            /\ heap'[users'] = {}
            /\ heap'[existingUsers'] = {}
            /\ snapshot' = {}
            /\ todo' = DOMAIN inputs
            /\ outcome' = "none"]_vars
    /\ []((outcome = "ok" /\ ~before.usersTxt.exists) =>
            /\ DOMAIN got = eventFiles
            /\ usersTxt.exists
            /\ NoRepeats(LinesOf(usersTxt.data))
            /\ Range(LinesOf(usersTxt.data)) = heap[users])

\* A second run, users.txt still missing after the first one aborted, has
\* gone through two files and created users.txt with the three users it
\* found.
C11_Witness ==
    /\ outcome = "ok"
    /\ runs = 2
    /\ ~before.usersTxt.exists
    /\ Cardinality(eventFiles) = 2
    /\ usersTxt.exists
    /\ Cardinality(heap[users]) = 3
    /\ Range(LinesOf(usersTxt.data)) = heap[users]

\* The artifact of f was created and nothing was written into it.
EmptyArtifact(f) == f \in DOMAIN artifacts /\ artifacts[f] = <<>>

\* C12 (crash-recovery gap), as claimed: a DigestFile call on a file whose
\* artifact an aborted run left empty is a cache hit that neither digests the
\* file nor extracts its users, and it returns a Digest, not an error.
C12_EmptyArtifactIsValidHit ==
    [][\A f \in FileIds :
          (EmptyArtifact(f) /\ DigestFileCalled(f)) =>
              /\ ret'.path = "hit"
              /\ ret'.kind = "ok"
              /\ heap' = heap
              /\ opened' = opened
              /\ artifacts' = artifacts]_vars

\* C12, amended: such a call takes the cache-hit path, neither digests the
\* file (the input is not opened, the artifact stays empty) nor extracts its
\* users, and returns the decoder's error with no Digest, which aborts the
\* run; so it goes in every later run.
C12_EmptyArtifactIsFatalHit ==
    [][\A f \in FileIds :
          /\ (EmptyArtifact(f) /\ DigestFileCalled(f)) =>
                /\ ret'.path = "hit"
                /\ ret'.kind = "err"
                /\ ret'.digest = NilDigest
                /\ heap' = heap
                /\ opened' = opened
                /\ artifacts' = artifacts
                /\ pc' = "idle"
                /\ outcome' = "fatal"
          /\ EmptyArtifact(f) => f \in DOMAIN artifacts' /\ artifacts'[f] = <<>>]_vars

\* The file without an hour in its name made the first run abort while it
\* was digested; the third run has just aborted on its empty artifact, as the
\* second did, without learning its users.
C12_Witness ==
    /\ runs = 3
    /\ outcome = "fatal"
    /\ ret.file = "nohour"
    /\ ret.path = "hit"
    /\ ret.kind = "err"
    /\ EmptyArtifact("nohour")
    /\ opened = {}
    /\ carol \notin heap[users]

\* The Digests a summary.json holds, decoded.
DigestsOf(file) ==
    IF file.exists /\ Len(file.data) = 1
    THEN [i \in 1..Len(file.data[1]) |-> DecodeDigest(file.data[1][i])]
    ELSE <<>>

\* Two slices hold the same Digests, each as many times.
SameDigests(a, b) ==
    /\ Len(a) = Len(b)
    /\ \A i \in 1..Len(a) : Occurrences(a, a[i]) = Occurrences(b, a[i])

\* The input files are those of the last successful run, unchanged.
InputsAsInGoodRun == good.ok /\ inputs = good.inputs

\* C13 (re-run idempotence): in a run over the input files of the last
\* successful run, unchanged, every DigestFile call takes the cache-hit path
\* and returns a Digest, no step adds anything to users.txt, and when the run
\* completes, the summary it writes holds the same Digests as the summary of
\* that successful run.
C13_RerunIdempotence ==
    [][InputsAsInGoodRun =>
          /\ \A f \in FileIds :
                DigestFileCalled(f) =>
                    ret'.path = "hit" /\ ret'.kind = "ok" /\ opened' = {}
          /\ usersTxt' = usersTxt
          /\ (pc = "loop" /\ outcome' = "ok") =>
                /\ summary'.exists
                /\ Len(summary'.data) = 1
                /\ SameDigests(DigestsOf(summary'), DigestsOf(lastGood.summary))]_vars

\* A second run over the two files of hour 9 and hour 09, both digested by
\* the first run, has completed: users.txt is as the first run left it, the
\* summary holds the same two Digests, in the other order.
C13_Witness ==
    /\ runs = 2
    /\ outcome = "ok"
    /\ eventFiles = {"h9", "h09"}
    /\ good.inputs = inputs
    /\ ret.path = "hit"
    /\ opened = {}
    /\ ~origin.exists
    /\ usersTxt = before.usersTxt
    /\ Range(LinesOf(usersTxt.data)) = LowerLogins(eventFiles)
    /\ SameDigests(DigestsOf(summary), DigestsOf(before.summary))
    /\ Len(DigestsOf(summary)) = 2
    /\ summary # before.summary

\* C14 (no staleness check): once the artifact of an input file exists, a
\* DigestFile call on that file takes the cache-hit path, does not open the
\* input file and changes neither the artifact nor any username set, and
\* when the artifact holds a Digest it returns that Digest, whatever the
\* input file holds by then.
C14_NoStalenessCheck ==
    [][\A f \in FileIds :
          (f \in DOMAIN artifacts /\ DigestFileCalled(f)) =>
              /\ ret'.path = "hit"
              /\ opened' = opened
              /\ heap' = heap
              /\ artifacts' = artifacts
              /\ artifacts[f] # <<>> =>
                    /\ ret'.kind = "ok"
                    /\ ret'.digest = DecodeDigest(artifacts[f][1])]_vars

\* A run has been handed the Digest stored for a file that has since got
\* more lines and a new actor; the run has opened no input file and does not
\* know the new actor.
C14_Witness ==
    /\ ret.path = "hit"
    /\ ret.kind = "ok"
    /\ ret.file \in DOMAIN first
    /\ ret.digest = first[ret.file]
    /\ inputs[ret.file] = ChangedContentOf(ret.file)
    /\ ret.digest.Count # BytesCount(inputs[ret.file].stream)
    /\ opened = {}
    /\ dave \notin heap[users]

\* The reader's last Read result.
LastRead == lcReads[Len(lcReads)]

\* C15 (lineCounter over every splitting): when the stream is read to its
\* end, lineCounter returns no error and the number of newline bytes of the
\* whole stream, however the stream is cut into reads, data that comes with
\* end-of-stream and reads of no bytes included; when a read fails with
\* another error, lineCounter returns that error.
C15_NewlinesOverAnySplitting ==
    lcResult.done =>
        /\ LastRead.err = "EOF" =>
              /\ lcResult.err = "nil"
              /\ lcResult.count = BytesCount(StreamOf(lcReads))
        /\ LastRead.err = "ERR" => lcResult.err = "ERR"

\* lineCounter has counted three newlines from a read of two, a read of no
\* bytes, and a last read that brought a newline together with end-of-stream.
C15_Witness ==
    /\ lcResult.done
    /\ Len(lcReads) = 3
    /\ lcReads[1].data = <<NLTok, NLTok>>
    /\ lcReads[2].data = <<>>
    /\ LastRead = [data |-> <<XTok, NLTok>>, err |-> "EOF"]
    /\ lcResult.err = "nil"
    /\ lcResult.count = 3

\* Instance p has just made the create call of line 48 on f.
TwoOpened(p, f) ==
    /\ inst[p].pc = "main"
    /\ inst'[p].pc \in {"doDigestFile", "readDigest", "fatal"}
    /\ inst'[p].file = f

\* C16 (exclusive creation as a lock): with two instances running at once,
\* for every input file at most one instance gets to create the artifact,
\* only that instance runs doDigestFile for the file and writes into the
\* artifact, never two at a time; and an instance whose create call finds
\* the artifact there takes the cache-hit path, which leaves its username
\* set and the artifact alone.
C16_ExclusiveCreation ==
    /\ [](\A f \in FileIds :
            /\ Cardinality(created[f].by) <= 1
            /\ created[f].computed \subseteq created[f].by
            /\ created[f].by # {} <=> f \in DOMAIN artifacts
            /\ \A p \in Instances :
                  (inst[p].pc = "doDigestFile" /\ inst[p].file = f) =>
                      created[f].by = {p})
    /\ [][\A p \in Instances, f \in FileIds :
            /\ (TwoOpened(p, f) /\ f \in DOMAIN artifacts) =>
                  inst'[p].pc = "readDigest"
            /\ (inst[p].pc = "readDigest" /\ inst'[p].pc # "readDigest") =>
                  /\ inst'[p].users = inst[p].users
                  /\ artifacts' = artifacts
                  /\ created' = created]_vars

\* Both instances have gone through the same two files: each created the
\* artifact of one and was served the other's from the cache.
C16_Witness ==
    /\ inst[1].pc = "done"
    /\ inst[2].pc = "done"
    /\ DOMAIN inputs = {"h9", "h10"}
    /\ created["h9"] = [by |-> {1}, computed |-> {1}]
    /\ created["h10"] = [by |-> {2}, computed |-> {2}]
    /\ Len(inst[1].digests) = 2
    /\ Len(inst[2].digests) = 2
    /\ inst[1].users # inst[2].users

\* C17 (no username twice): when users.txt was absent before the first run,
\* then after any sequence of runs, completed or aborted at any point, no
\* two lines of users.txt hold the same username.
C17_NoUsernameTwice ==
    ~origin.exists => NoRepeats(LinesOf(usersTxt.data))

\* An earlier run created users.txt and aborted before it had written all
\* its users; a later run met one of the written users again in a new file
\* and has completed, appending only the user that was new.
C17_Witness ==
    /\ ~origin.exists
    /\ runs >= 2
    /\ outcome = "ok"
    /\ before.usersTxt.data # <<>>
    /\ Len(AppendedLines) = 1
    /\ \E f \in opened :
          LowerLogins({f}) \cap Range(LinesOf(before.usersTxt.data)) # {}
    /\ Range(LinesOf(usersTxt.data)) # LowerLogins(eventFiles)
    /\ Len(LinesOf(usersTxt.data)) = 2

\* The artifact of f holds a Digest.
Populated(f) == f \in DOMAIN artifacts /\ artifacts[f] # <<>>

\* C18 (no discovered username lost), as claimed: whenever a run has
\* completed, users.txt holds on some line the lower-cased login of every
\* record of every (well-formed) input file whose artifact holds a Digest.
C18_NoUsernameLost ==
    outcome = "ok" =>
        \A f \in DOMAIN inputs :
            (Populated(f) /\ WellFormed(inputs[f])) =>
                LowerLogins({f}) \subseteq Range(LinesOf(usersTxt.data))

\* C19 (known-users round trip), as claimed: when users.txt holds only what
\* earlier runs appended (it was absent before the first run), the set a
\* run loads at its start is exactly the set of usernames on the lines of
\* users.txt, and it is the live set the last successful run ended with.
C19_KnownUsersRoundTrip ==
    [][(Started /\ ~origin.exists) =>
          /\ heap'[users'] = Range(LinesOf(usersTxt.data))
          /\ good.ok => heap'[users'] = good.users]_vars

=============================================================================
